---- MODULE Spec2Model ----
(***************************************************************************)
(* Mesh+ Workshop (Blockbench plugin): box -> CSG solid -> boolean ->      *)
(* voxel boxes.  Two drafts of the plugin are in the repository:           *)
(*   src/unnamed/part_000  (version 1.0.0, "CSG via CDN")                  *)
(*   src/ransowere.js      (version 2.0.0, "CSG Completo")                 *)
(* The variable draft says which one is installed.  ransowere.js leaves    *)
(* out CustomRenderer, openWorkshop and loadSelectionIntoWorkshop with the *)
(* note "do codigo anterior": they are taken from part_000.  part_000      *)
(* leaves out CustomRenderer.setupEvents ("identico ao codigo anterior"),  *)
(* which is taken to return.                                               *)
(*                                                                         *)
(* Numbers: the code computes in IEEE 754 doubles, and so does the model.  *)
(* A number is a triple <<a, b, c>> of limbs that stands for               *)
(*     a / 2^20 + b / 2^47 + c / 2^74,    0 <= b, c < 2^27,                *)
(* which holds every double of magnitude between 2^-21 and 2^10 exactly;   *)
(* sums are rounded to 53 significant bits, ties to even.  Plane normals   *)
(* are unit vectors along an axis and are kept as plain integers -1, 0, 1. *)
(***************************************************************************)
EXTENDS Integers, Sequences, FiniteSets, TLC

VARIABLES
    draft,          \* which draft of the plugin is installed
    hasGetBounds,   \* whether the loaded CSG library offers getBounds()
    scene,          \* ids of the original elements still in the outliner
    added,          \* voxel cubes added to the outliner (cube.add(parent))
    selected,       \* selected element ids, in the order they were selected
    undoOpen,       \* Undo.initEdit() called and Undo.finishEdit() not yet
    undoCount,      \* finished undo edits
    pc,             \* position inside executeCSGOperation / csgToCubes
    mode,           \* mode of the last invocation that combined two solids
    step,           \* resolution = step of that invocation
    operands,       \* ids of the two elements whose solids it combined
    sel,            \* its selection (Group.selected.concat(Cube.selected))
    polys,          \* csg_polygons of the solid csgToCubes is voxelizing
    bounds,         \* bounds of csgToCubes
    x, y, z,        \* loop variables of csgToCubes
    cubes,          \* cubes of csgToCubes, the voxel list being built
    earlier,        \* the lists that earlier calls of csgToCubes with this
                    \* solid and step returned, where calls are repeated
    outcome,        \* how the last invocation of executeCSGOperation ended
    cube,           \* the cube handed to the converter
    matrix,         \* Meshplus.getTransformationMatrix(cube), <<>> before the call
    csg,            \* Meshplus.cubeToCSG(cube), <<>> before the call
    moved,          \* the untransformed solid after transform(matrix), <<>> before
    csgDefined,     \* typeof CSG !== 'undefined'
    insts,          \* the evaluations of the plugin file, each with its closure:
                    \* action_workshop, workshop_dialog, custom_renderer
    menu            \* the instances whose action_workshop is in menu.tools

vars == <<draft, hasGetBounds, scene, added, selected, undoOpen, undoCount,
          pc, mode, step, operands, sel, polys, bounds, x, y, z, cubes, earlier,
          outcome, cube, matrix, csg, moved, csgDefined, insts, menu>>

----------------------------------------------------------------------------
(* Numbers of JavaScript: IEEE 754 doubles                                 *)

\* the first limb counts 2^-20
TicksPerUnit == 2^20

\* the second and the third limb are below 2^27
Limb == 2^27

Num == Int \X Int \X Int

\* the whole number n
U(n) == <<n * TicksPerUnit, 0, 0>>

Zero == <<0, 0, 0>>

\* NaN is not a sum of limbs: its second limb is negative
NaN == <<0, -1, 0>>

IsNaN(p) == p[2] < 0

\* the limbs of a / 2^20 + b / 2^47 + c / 2^74 for any integers a, b, c
Carry(a, b, c) ==
    <<a + (b + c \div Limb) \div Limb, (b + c \div Limb) % Limb, c % Limb>>

\* -p and p + q without rounding
XNeg[p \in Num] == Carry(-p[1], -p[2], -p[3])

XAdd[p \in Num, q \in Num] == Carry(p[1] + q[1], p[2] + q[2], p[3] + q[3])

BitLen[n \in Nat] == IF n = 0 THEN 0 ELSE 1 + BitLen[n \div 2]

\* how many bits |p| has below its 53 significant ones; top and mid are the
\* first two limbs of |p|
Excess[p \in Num] ==
    LET rest == p[2] > 0 \/ p[3] > 0
        top  == IF p[1] >= 0 THEN p[1] ELSE IF rest THEN -p[1] - 1 ELSE -p[1]
        mid  == IF p[1] >= 0 THEN p[2] ELSE Limb - p[2] - (IF p[3] > 0 THEN 1 ELSE 0)
    IN  IF top > 0 THEN BitLen[top] + 1 ELSE IF mid >= 2^26 THEN 1 ELSE 0

\* p with d added to limb k and nothing below that limb
Bump[p \in Num, k \in {2, 3}, d \in Int] ==
    Carry(p[1], IF k = 3 THEN p[2] ELSE p[2] + d, IF k = 3 THEN p[3] + d ELSE 0)

\* p without what its limb k holds below unit, rounded to the nearest
\* multiple of unit, ties to even; sticky: the exact value lies above p
Drop[p \in Num, k \in {2, 3}, unit \in Nat, sticky \in BOOLEAN] ==
    LET low   == p[k] % unit
        odd   == IF unit = Limb THEN p[k - 1] % 2 = 1 ELSE (p[k] \div unit) % 2 = 1
        above == sticky \/ (k = 2 /\ p[3] > 0)
        up    == 2 * low > unit \/ (2 * low = unit /\ (above \/ odd))
    IN  Bump[p, k, (IF up THEN unit ELSE 0) - low]

\* p rounded to 53 significant bits, its q lowest bits being in excess
RoundAt[p \in Num, q \in Nat, sticky \in BOOLEAN] ==
    Drop[p, IF q <= 27 THEN 3 ELSE 2, IF q <= 27 THEN 2^q ELSE 2^(q - 27), sticky]

Round[p \in Num, sticky \in BOOLEAN] == RoundAt[p, Excess[p], sticky]

\* -p, p + q, p - q, p / 2 of JavaScript
FNeg[p \in Num] == IF IsNaN(p) THEN NaN ELSE XNeg[p]

FAdd[p \in Num, q \in Num] ==
    IF IsNaN(p) \/ IsNaN(q) THEN NaN
    ELSE IF p[2] = 0 /\ p[3] = 0 /\ q[2] = 0 /\ q[3] = 0 THEN <<p[1] + q[1], 0, 0>>
    ELSE Round[XAdd[p, q], FALSE]

FSub[p \in Num, q \in Num] == FAdd[p, FNeg[q]]

FHalf[p \in Num] ==
    IF IsNaN(p) THEN NaN
    ELSE <<p[1] \div 2, (p[2] + (p[1] % 2) * Limb) \div 2,
           (p[3] + (p[2] % 2) * Limb) \div 2>>

\* n * p and p / n for n = -1, 0 (product only), 1
FScale[n \in {-1, 0, 1}, p \in Num] ==
    IF IsNaN(p) THEN NaN ELSE IF n = 0 THEN Zero ELSE IF n = 1 THEN p ELSE XNeg[p]

\* p * q of JavaScript where one factor is -1, 0 or 1, as in every product
\* of the matrices of the model
FMul[p \in Num, q \in Num] ==
    IF IsNaN(p) \/ IsNaN(q) THEN NaN
    ELSE IF p = Zero \/ q = Zero THEN Zero
    ELSE IF p = U(1) THEN q
    ELSE IF q = U(1) THEN p
    ELSE FScale[CASE p = U(-1) \/ q = U(-1) -> -1, IF p = U(-1) THEN q ELSE p]

\* p < q, p > q, p <= q of JavaScript: false when either is NaN
FLt[p \in Num, q \in Num] ==
    /\ ~IsNaN(p)
    /\ ~IsNaN(q)
    /\ \/ p[1] < q[1]
       \/ p[1] = q[1] /\ p[2] < q[2]
       \/ p[1] = q[1] /\ p[2] = q[2] /\ p[3] < q[3]

FGt[p \in Num, q \in Num] == FLt[q, p]

FLe[p \in Num, q \in Num] == ~IsNaN(p) /\ ~IsNaN(q) /\ ~FLt[q, p]

FMin(p, q) == IF IsNaN(p) \/ IsNaN(q) THEN NaN ELSE IF FLt[q, p] THEN q ELSE p

FMax(p, q) == IF IsNaN(p) \/ IsNaN(q) THEN NaN ELSE IF FLt[p, q] THEN q ELSE p

\* k more binary digits of r / d behind acc: <<the digits, the remainder>>
LongDiv[r \in Nat, d \in Nat, k \in Nat, acc \in Nat] ==
    IF k = 0 THEN <<acc, r>>
    ELSE LongDiv[(2 * r) % d, d, k - 1, 2 * acc + (2 * r) \div d]

\* the double nearest to n / d, for n >= 0 and d > 0
Quotient[n \in Nat, d \in Nat] ==
    LET a == LongDiv[n % d, d, 20, n \div d]
        b == LongDiv[a[2], d, 27, 0]
        c == LongDiv[b[2], d, 27, 0]
    IN  Round[<<a[1], b[1], c[1]>>, c[2] # 0]

\* the double a decimal literal n / d denotes, d a power of ten
Dec(n, d) == IF n < 0 THEN XNeg[Quotient[-n, d]] ELSE Quotient[n, d]

\* const EPSILON = 1e-5
EPSILON == Dec(1, 100000)

\* the heuristic bounding box 0..16 of both drafts, in model units
HeuristicMax == 16

\* radius [8, 8, 8] of the simplified cubeToCSG of part_000, in model units
SimpleRadius == 8

Abs(n) == IF n < 0 THEN -n ELSE n

\* the dot product of two integer vectors
Dot(a, b) == a[1] * b[1] + a[2] * b[2] + a[3] * b[3]

\* normal.dot(v) for a normal with components -1, 0, 1: the sum of the
\* three products, from left to right
FDot(n, v) ==
    LET sum[k \in 0..3] == IF k = 0 THEN Zero ELSE FAdd[sum[k - 1], FScale[n[k], v[k]]]
    IN  sum[3]

----------------------------------------------------------------------------
(* The CSG library: CSG.cube, translate, toPolygons, getBounds.  It is     *)
(* loaded from a CDN and is not part of the repository.  A solid is its    *)
(* polygon list.  A polygon of an axis-aligned solid is a rectangle: lo    *)
(* and hi are its opposite corners (equal on the axis of the normal),      *)
(* normal and w are its plane (normal . p = w).                            *)

Axis(k) == [i \in 1..3 |-> IF i = k THEN 1 ELSE 0]

Neg(v) == [i \in 1..3 |-> -v[i]]

\* A rectangle without area has no plane: the library divides by a zero
\* cross product and the normal is NaN, which no comparison of the library
\* or of the voxelizer accepts.  The model keeps the normal <<0, 0, 0>> and
\* w = 0 for it, on which the same comparisons fail.
Face(k, sign, c, lo, hi) ==
    LET flat == \E i \in 1..3 : i # k /\ lo[i] = hi[i]
    IN  [normal |-> IF flat THEN <<0, 0, 0>>
                    ELSE IF sign > 0 THEN Axis(k) ELSE Neg(Axis(k)),
         w      |-> IF flat THEN Zero ELSE FScale[sign, c],
         lo     |-> [i \in 1..3 |-> IF i = k THEN c ELSE FMin(lo[i], hi[i])],
         hi     |-> [i \in 1..3 |-> IF i = k THEN c ELSE FMax(lo[i], hi[i])]]

\* CSG.cube({center, radius}).translate(center) with lo = center - radius
\* and hi = center + radius: the six faces in the library's order, the ones
\* listed as -x, +x, -y, +y, -z, +z.  The plane of a face is computed from
\* its vertices, so a negative radius on one of the other two axes turns
\* the normal of the face around: a box with an odd number of negative
\* radii is inside out.  l and h are lo and hi, each computed once.
BoxSolid(lo, hi) ==
    CHOOSE solid \in
        { [f \in 1..6 |->
            LET k    == (f + 1) \div 2
                far  == f % 2 = 0
                turn == IF Cardinality({i \in 1..3 \ {k} : FLt[h[i], l[i]]}) = 1
                        THEN -1 ELSE 1
            IN  Face(k, IF far THEN turn ELSE -turn, IF far THEN h[k] ELSE l[k], l, h)] :
            l \in {lo}, h \in {hi} } : TRUE

SetMin(S) == IF \E a \in S : IsNaN(a) THEN NaN ELSE CHOOSE a \in S : \A b \in S : FLe[a, b]
SetMax(S) == IF \E a \in S : IsNaN(a) THEN NaN ELSE CHOOSE a \in S : \A b \in S : FLe[b, a]

\* solid.getBounds(): the axis-aligned bounding box of the polygons
GetBounds(ps) ==
    IF Len(ps) = 0
    THEN [min |-> <<Zero, Zero, Zero>>, max |-> <<Zero, Zero, Zero>>]
    ELSE [min |-> [k \in 1..3 |-> SetMin({ps[i].lo[k] : i \in 1..Len(ps)})],
          max |-> [k \in 1..3 |-> SetMax({ps[i].hi[k] : i \in 1..Len(ps)})]]

----------------------------------------------------------------------------
(* Transform Builder: Meshplus.getTransformationMatrix.  The cubes of the   *)
(* model are not rotated: of the multiples of 90 degrees, 0 is the only    *)
(* angle whose sine and cosine Math.sin and Math.cos give as whole numbers *)
(* (Math.cos(Math.PI / 2) is 6.1e-17, Math.sin(Math.PI) is 1.2e-16).       *)

\* Math.cos(THREE.Math.degToRad(deg)) and Math.sin(THREE.Math.degToRad(deg))
Cos(deg) == CASE deg = 0 -> 1

Sin(deg) == CASE deg = 0 -> 0

\* THREE.Matrix4 as rows of a 4x4 matrix
makeTranslation(t) ==
    << <<U(1), Zero, Zero, t[1]>>, <<Zero, U(1), Zero, t[2]>>,
       <<Zero, Zero, U(1), t[3]>>, <<Zero, Zero, Zero, U(1)>> >>

makeRotationX(deg) ==
    << <<U(1), Zero, Zero, Zero>>, <<Zero, U(Cos(deg)), U(-Sin(deg)), Zero>>,
       <<Zero, U(Sin(deg)), U(Cos(deg)), Zero>>, <<Zero, Zero, Zero, U(1)>> >>

makeRotationY(deg) ==
    << <<U(Cos(deg)), Zero, U(Sin(deg)), Zero>>, <<Zero, U(1), Zero, Zero>>,
       <<U(-Sin(deg)), Zero, U(Cos(deg)), Zero>>, <<Zero, Zero, Zero, U(1)>> >>

makeRotationZ(deg) ==
    << <<U(Cos(deg)), U(-Sin(deg)), Zero, Zero>>, <<U(Sin(deg)), U(Cos(deg)), Zero, Zero>>,
       <<Zero, Zero, U(1), Zero>>, <<Zero, Zero, Zero, U(1)>> >>

\* the product A * B: each entry is the sum of four products, from left to
\* right; a and b are A and B, each computed once
multiplyMatrices(A, B) ==
    CHOOSE M \in {[r \in 1..4 |-> [c \in 1..4 |->
                    LET sum[k \in 0..4] ==
                            IF k = 0 THEN Zero
                            ELSE FAdd[sum[k - 1], FMul[a[r][k], b[k][c]]]
                    IN  sum[4]]] :
                  a \in {A}, b \in {B}} : TRUE

\* [-pivot[0], -pivot[1], -pivot[2]]
Minus(v) == [i \in 1..3 |-> FNeg[v[i]]]

\* a variant that does not move the pivot to the origin first: M = T2 * R
getTransformationMatrixNoT1(c) ==
    multiplyMatrices(makeTranslation(c.origin),
        multiplyMatrices(multiplyMatrices(makeRotationZ(c.rotation[3]),
                                          makeRotationY(c.rotation[2])),
                         makeRotationX(c.rotation[1])))

\* M = T2 * (Rz * Ry * Rx) * T1
getTransformationMatrix(c) ==
    LET pivot == c.origin
        T1 == makeTranslation(Minus(pivot))
        Rx == makeRotationX(c.rotation[1])
        Ry == makeRotationY(c.rotation[2])
        Rz == makeRotationZ(c.rotation[3])
        R  == multiplyMatrices(multiplyMatrices(Rz, Ry), Rx)
        T2 == makeTranslation(pivot)
    IN  multiplyMatrices(multiplyMatrices(T2, R), T1)

\* M applied to the point p, whose fourth coordinate is 1, and to a unit
\* normal (no translation)
ApplyPoint(M, p) ==
    [r \in 1..3 |->
        LET sum[k \in 0..4] ==
                IF k = 0 THEN Zero
                ELSE FAdd[sum[k - 1], FMul[M[r][k], (p \o <<U(1)>>)[k]]]
        IN  sum[4]]

ApplyDir(M, d) ==
    [r \in 1..3 |-> (M[r][1][1] \div TicksPerUnit) * d[1]
                        + (M[r][2][1] \div TicksPerUnit) * d[2]
                        + (M[r][3][1] \div TicksPerUnit) * d[3]]

\* solid.transform(matrix): every vertex is mapped and every plane is
\* recomputed from the mapped vertices.
TransformPolygon(M, p) ==
    LET on(at) ==
            LET n == ApplyDir(M, p.normal)
            IN  [normal |-> n,
                 w      |-> FDot(n, at[1]),
                 lo     |-> [i \in 1..3 |-> FMin(at[1][i], at[2][i])],
                 hi     |-> [i \in 1..3 |-> FMax(at[1][i], at[2][i])]]
    IN  CHOOSE q \in {on(at) : at \in {[e \in 1..2 |-> ApplyPoint(M, <<p.lo, p.hi>>[e])]}} :
            TRUE

Transform(M, ps) == [i \in 1..Len(ps) |-> TransformPolygon(M, ps[i])]

----------------------------------------------------------------------------
(* Box-to-Solid Converter: Meshplus.cubeToCSG                              *)

\* ransowere.js: the full conversion.  A group has no from / to: reading
\* from[0] throws a TypeError; so does an undefined element.
\* lines 85-94: CSG.cube of the right size around the origin, translated
\* to its place; its vertices are -radius + center and radius + center
Untransformed(c) ==
    CHOOSE solid \in
        { LET center == [i \in 1..3 |-> FHalf[FAdd[from[i], to[i]]]]
              size   == [i \in 1..3 |-> FSub[to[i], from[i]]]
              radius == [i \in 1..3 |-> FHalf[size[i]]]
              on(corner) == BoxSolid(corner[-1], corner[1])
          IN  CHOOSE s \in {on(corner) : corner \in
                    {[e \in {-1, 1} |-> [i \in 1..3 |->
                        FAdd[FScale[e, radius[i]], center[i]]]]}} : TRUE :
            from \in {c.from}, to \in {c.to} } : TRUE

cubeToCSG(c) ==
    CHOOSE solid \in
        { IF \E i \in 1..3 : c.rotation[i] # 0
          THEN Transform(getTransformationMatrix(c), csg_solid)
          ELSE csg_solid :
            csg_solid \in {Untransformed(c)} } : TRUE

\* part_000: the simplified conversion installed by onload: a cube of
\* radius 8 around the origin moved by from + 8, whatever to and the
\* rotation are.
cubeToCSGSimple(c) ==
    LET on(corner) == BoxSolid(corner[-1], corner[1])
    IN  CHOOSE solid \in {on(corner) : corner \in
            {[e \in {-1, 1} |-> [i \in 1..3 |->
                FAdd[U(e * SimpleRadius), FAdd[c.from[i], U(SimpleRadius)]]]]}} : TRUE

----------------------------------------------------------------------------
(* Boolean Combiner: solid.subtract / union / intersect of the CSG library,*)
(* modelled from spec 4.3: binary space partition clipping as csg.js does  *)
(* it.  The splitting polygon of a node is the first polygon it is given.  *)

Modes == {"subtract", "union", "intersect"}

\* the corners of a rectangle
Corners(p) ==
    {<<a, b, c>> : a \in {p.lo[1], p.hi[1]}, b \in {p.lo[2], p.hi[2]},
                   c \in {p.lo[3], p.hi[3]}}

\* on which side of the plane the point v lies: 1 in front, 2 behind,
\* 0 within EPSILON of it
Side(plane, v) ==
    CHOOSE s \in {IF FLt[t, FNeg[e]] THEN 2 ELSE IF FGt[t, e] THEN 1 ELSE 0 :
                    t \in {FSub[FDot(plane.normal, v), plane.w]}, e \in {EPSILON}} : TRUE

\* the part of the rectangle p below (sign < 0) or above the plane, which
\* cuts it across the axis of the plane's normal
Half(plane, p, sign) ==
    LET k == CHOOSE i \in 1..3 : plane.normal[i] # 0
        s == FScale[plane.normal[k], plane.w]
    IN  IF sign < 0 THEN [p EXCEPT !.hi[k] = s] ELSE [p EXCEPT !.lo[k] = s]

\* plane.splitPolygon(polygon, coplanarFront, coplanarBack, front, back):
\* what it pushes to each list
splitPolygon(plane, polygon) ==
    LET none == [cf |-> <<>>, cb |-> <<>>, f |-> <<>>, b |-> <<>>]
        on(types) ==
            IF 1 \notin types /\ 2 \notin types
            THEN IF Dot(plane.normal, polygon.normal) > 0
                 THEN [none EXCEPT !.cf = <<polygon>>]
                 ELSE [none EXCEPT !.cb = <<polygon>>]
            ELSE IF 2 \notin types THEN [none EXCEPT !.f = <<polygon>>]
            ELSE IF 1 \notin types THEN [none EXCEPT !.b = <<polygon>>]
            ELSE LET k == CHOOSE i \in 1..3 : plane.normal[i] # 0
                 IN  [none EXCEPT !.f = <<Half(plane, polygon, plane.normal[k])>>,
                                  !.b = <<Half(plane, polygon, -plane.normal[k])>>]
    IN  CHOOSE r \in {on(types) : types \in {{Side(plane, v) : v \in Corners(polygon)}}} : TRUE

\* the concatenation of the sequences ss[1], ss[2], ...
Cat(ss) ==
    LET cat[i \in 0..Len(ss)] == IF i = 0 THEN <<>> ELSE cat[i - 1] \o ss[i]
    IN  cat[Len(ss)]

\* the lists a loop of splitPolygon over polygons fills: own holds the
\* coplanar polygons (Node.build), front and back the rest; clipFront and
\* clipBack are front and back when the coplanar ones go there too
\* (Node.clipPolygons)
Partition(plane, polygons) ==
    LET lists(s) ==
            [own       |-> Cat([i \in 1..Len(s) |-> s[i].cf \o s[i].cb]),
             front     |-> Cat([i \in 1..Len(s) |-> s[i].f]),
             back      |-> Cat([i \in 1..Len(s) |-> s[i].b]),
             clipFront |-> Cat([i \in 1..Len(s) |-> s[i].cf \o s[i].f]),
             clipBack  |-> Cat([i \in 1..Len(s) |-> s[i].cb \o s[i].b])]
    IN  CHOOSE r \in {lists(s) : s \in {[i \in 1..Len(polygons) |->
                                            splitPolygon(plane, polygons[i])]}} : TRUE

\* no node: the value of front and back of a node without that child
NoNode == [nil |-> TRUE]

\* new CSG.Node()
EmptyNode ==
    [nil |-> FALSE, planed |-> FALSE, plane |-> [normal |-> <<0, 0, 0>>, w |-> Zero],
     polygons |-> <<>>, front |-> NoNode, back |-> NoNode]

\* node.build(polygons)
RECURSIVE build(_, _)
build(node, polygons) ==
    CHOOSE r \in
        { IF Len(ps) = 0 THEN n
          ELSE LET plane == IF n.planed THEN n.plane
                            ELSE [normal |-> ps[1].normal, w |-> ps[1].w]
                   child(c, list) ==
                       IF Len(list) = 0 THEN c
                       ELSE build(IF c.nil THEN EmptyNode ELSE c, list)
                   on(parts) ==
                       [nil |-> FALSE, planed |-> TRUE, plane |-> plane,
                        polygons |-> n.polygons \o parts.own,
                        front |-> child(n.front, parts.front),
                        back |-> child(n.back, parts.back)]
               IN  CHOOSE m \in {on(parts) : parts \in {Partition(plane, ps)}} : TRUE
          : n \in {node}, ps \in {polygons} } : TRUE

\* polygon.flip()
Flip(p) == [p EXCEPT !.normal = Neg(p.normal), !.w = FNeg[p.w]]

\* node.invert()
RECURSIVE invert(_)
invert(node) ==
    CHOOSE r \in
        { [nil |-> FALSE, planed |-> n.planed,
           plane |-> [normal |-> Neg(n.plane.normal), w |-> FNeg[n.plane.w]],
           polygons |-> [i \in 1..Len(n.polygons) |-> Flip(n.polygons[i])],
           front |-> IF n.back.nil THEN NoNode ELSE invert(n.back),
           back |-> IF n.front.nil THEN NoNode ELSE invert(n.front)]
          : n \in {node} } : TRUE

\* node.clipPolygons(polygons): the parts of polygons outside the solid of node
RECURSIVE clipPolygons(_, _)
clipPolygons(node, polygons) ==
    CHOOSE r \in
        { IF ~n.planed THEN ps
          ELSE LET on(parts) ==
                       (IF n.front.nil THEN parts.clipFront
                        ELSE clipPolygons(n.front, parts.clipFront))
                       \o (IF n.back.nil THEN <<>>
                           ELSE clipPolygons(n.back, parts.clipBack))
               IN  CHOOSE m \in {on(parts) : parts \in {Partition(n.plane, ps)}} : TRUE
          : n \in {node}, ps \in {polygons} } : TRUE

\* node.clipTo(bsp)
RECURSIVE clipTo(_, _)
clipTo(node, bsp) ==
    CHOOSE r \in
        { [n EXCEPT !.polygons = clipPolygons(t, n.polygons),
                    !.front = IF n.front.nil THEN NoNode ELSE clipTo(n.front, t),
                    !.back = IF n.back.nil THEN NoNode ELSE clipTo(n.back, t)]
          : n \in {node}, t \in {bsp} } : TRUE

\* node.allPolygons()
RECURSIVE allPolygons(_)
allPolygons(node) ==
    CHOOSE r \in
        { n.polygons \o (IF n.front.nil THEN <<>> ELSE allPolygons(n.front))
                     \o (IF n.back.nil THEN <<>> ELSE allPolygons(n.back))
          : n \in {node} } : TRUE

\* the statements of a.union(b), a.subtract(b) and a.intersect(b) of csg.js
\* on the trees a (1) and b (2), in the order in which they run
Statements(op) ==
    LET a == 1
        b == 2
        invert_(t)    == [f |-> "invert", on |-> t]
        clipTo_(t, u) == [f |-> "clipTo", on |-> t]
        build_(t, u)  == [f |-> "build", on |-> t]
    IN  CASE op = "union" ->
                << clipTo_(a, b), clipTo_(b, a), invert_(b), clipTo_(b, a), invert_(b),
                   build_(a, b) >>
          [] op = "subtract" ->
                << invert_(a), clipTo_(a, b), clipTo_(b, a), invert_(b), clipTo_(b, a),
                   invert_(b), build_(a, b), invert_(a) >>
          [] op = "intersect" ->
                << invert_(a), clipTo_(b, a), invert_(b), clipTo_(a, b), clipTo_(b, a),
                   build_(a, b), invert_(a) >>

\* the trees after one statement: t.invert(), t.clipTo(u) or
\* t.build(u.allPolygons()), t and u being the two trees
Statement(s, trees) ==
    CHOOSE r \in
        { [trees EXCEPT ![s.on] =
                CASE s.f = "invert" -> invert(t)
                  [] s.f = "clipTo" -> clipTo(t, u)
                  [] s.f = "build"  -> build(t, allPolygons(u))] :
            t \in {trees[s.on]}, u \in {trees[3 - s.on]} } : TRUE

\* a.subtract(b), a.union(b), a.intersect(b) of csg.js: the polygons of
\* the tree a after the statements, a and b being built from PA and PB
Combine(op, PA, PB) ==
    LET run[k \in 0..Len(Statements(op))] ==
            IF k = 0 THEN [i \in 1..2 |-> build(EmptyNode, <<PA, PB>>[i])]
            ELSE Statement(Statements(op)[k], run[k - 1])
    IN  allPolygons(run[Len(Statements(op))][1])
----------------------------------------------------------------------------
(* Voxelizer: csgToCubes                                                   *)

Drafts == {"part_000", "ransowere"}

HeuristicBounds ==
    [min |-> <<Zero, Zero, Zero>>,
     max |-> <<U(HeuristicMax), U(HeuristicMax), U(HeuristicMax)>>]

\* part_000 line 54: always the heuristic box.  ransowere.js line 118:
\* csg_solid.getBounds ? csg_solid.getBounds() : the heuristic box.
Bounds(d, gb, ps) ==
    IF d = "ransowere" /\ gb THEN GetBounds(ps) ELSE HeuristicBounds

\* new CSG.Vector(x + step / 2, y + step / 2, z + step / 2)
center_point(px, py, pz, st) == [k \in 1..3 |-> FAdd[<<px, py, pz>>[k], FHalf[st]]]

ray_direction == <<1, 0, 0>>

\* The body of csg_polygons.forEach for one polygon: does it add one to
\* intersections?  denom is -1, 0 or 1.
Counted(polygon, cp) ==
    LET denom == Dot(polygon.normal, ray_direction)
        t     == FScale[denom, FSub[polygon.w, FDot(polygon.normal, cp)]]
    IN  \E e \in {EPSILON} :
            /\ ~FLt[U(Abs(denom)), e]
            /\ FGt[t, e]

Intersections(ps, cp) ==
    CHOOSE n \in {Cardinality({i \in 1..Len(ps) : Counted(ps[i], c)}) : c \in {cp}} : TRUE

\* a variant of Cube whose to forgets the step on z
CubeFlat(px, py, pz, st) ==
    [from |-> <<px, py, pz>>,
     to   |-> [k \in 1..3 |-> IF k = 3 THEN pz ELSE FAdd[<<px, py, pz>>[k], st]]]

\* new Cube({from: [x, y, z], to: [x + step, y + step, z + step]})
Cube(px, py, pz, st) ==
    [from |-> <<px, py, pz>>, to |-> [k \in 1..3 |-> FAdd[<<px, py, pz>>[k], st]]]

\* the body of the innermost loop: the cubes it pushes
Sample(ps, px, py, pz, st) ==
    IF Intersections(ps, center_point(px, py, pz, st)) % 2 # 0
    THEN << Cube(px, py, pz, st) >>
    ELSE <<>>

\* for (let z = bounds.min.z; z < bounds.max.z; z += step), when it ends
ZLoop(ps, b, px, py, st) ==
    LET loop[pz \in Num] ==
            IF FLt[pz, b.max[3]]
            THEN Sample(ps, px, py, pz, st) \o loop[FAdd[pz, st]]
            ELSE <<>>
    IN  loop[b.min[3]]

\* for (let y = bounds.min.y; y < bounds.max.y; y += step), when it ends
YLoop(ps, b, px, st) ==
    LET loop[py \in Num] ==
            IF FLt[py, b.max[2]]
            THEN ZLoop(ps, b, px, py, st) \o loop[FAdd[py, st]]
            ELSE <<>>
    IN  loop[b.min[2]]

\* for (let x = bounds.min.x; x < bounds.max.x; x += step), when it ends
XLoop(ps, b, st) ==
    LET loop[px \in Num] ==
            IF FLt[px, b.max[1]]
            THEN YLoop(ps, b, px, st) \o loop[FAdd[px, st]]
            ELSE <<>>
    IN  loop[b.min[1]]

\* csgToCubes(csg_solid, resolution) when its loops end: the list it returns
csgToCubes(ps, b, st) == XLoop(ps, b, st)

----------------------------------------------------------------------------
(* The host (Blockbench): outliner elements, selection, undo               *)

\* at most this many elements are selected at once
MaxSelected == 2

\* how far a loop that cannot end is followed
MaxSpin == 3

\* the workshop is followed up to this many finished edits
MaxEdits == 1

\* a scan is followed if no loop of it makes more passes than this
MaxPasses == 21

ZeroVec == <<Zero, Zero, Zero>>

Elements ==
    << [type |-> "cube", parent |-> "root", origin |-> ZeroVec, rotation |-> <<0, 0, 0>>,
        from |-> <<U(0), U(0), U(0)>>, to |-> <<U(2), U(2), U(2)>>],
       [type |-> "cube", parent |-> "root", origin |-> ZeroVec, rotation |-> <<0, 0, 0>>,
        from |-> <<U(1), U(1), U(1)>>, to |-> <<U(3), U(3), U(3)>>],
       [type |-> "cube", parent |-> "bone", origin |-> ZeroVec, rotation |-> <<0, 0, 0>>,
        from |-> <<U(0), U(0), U(0)>>, to |-> <<U(0), U(2), U(2)>>],
       [type |-> "group", parent |-> "root"] >>

ElementIds == 1..Len(Elements)

IsGroup(e) == Elements[e].type = "group"
IsCube(e) == Elements[e].type = "cube"

Range(s) == {s[i] : i \in 1..Len(s)}

\* Group.selected.concat(Cube.selected)
Selection(s) == SelectSeq(s, IsGroup) \o SelectSeq(s, IsCube)

\* Meshplus.cubeToCSG as each draft installs it
Convert(d, e) ==
    IF d = "part_000" THEN cubeToCSGSimple(Elements[e]) ELSE cubeToCSG(Elements[e])

\* 2^-73, about 1.06e-22: a positive number so small that 1 + Tiny is 1
Tiny == <<0, 0, 2>>

\* values of the input meshplus_resolution after parseFloat: whole numbers,
\* 0.1 (the min of the input), a tiny positive number and NaN (the input
\* left empty)
Resolutions == {U(-1), U(0), U(1), Dec(1, 10), Tiny, NaN}

\* What a draft can ask of the combiner: part_000 every operator,
\* ransowere.js only subtract, on two cubes of the outliner.
Jobs(d) ==
    UNION {{<<op, solid[e[1]], solid[e[2]]>> :
                op \in IF d = "part_000" THEN Modes ELSE {"subtract"},
                e \in {e \in (DOMAIN solid) \X (DOMAIN solid) : e[1] # e[2]}} :
            solid \in {[e \in {e \in ElementIds : IsCube(e)} |-> Convert(d, e)]}}

\* Combine, computed once for these: the pairs <<job, result>>
Combinations == {<<j, Combine(j[1], j[2], j[3])>> : j \in UNION {Jobs(d) : d \in Drafts}}

Combined(j) == (CHOOSE p \in Combinations : p[1] = j)[2]

\* cube.from[0] of an element without from throws a TypeError
ConvertThrows(e) == ~IsCube(e)

\* loadSelectionIntoWorkshop() (part_000 lines 200-219) throws when it
\* converts a group
LoadThrows(s) ==
    /\ Len(Selection(s)) = 2
    /\ ConvertThrows(Selection(s)[1]) \/ ConvertThrows(Selection(s)[2])

\* custom_renderer.meshes after loadSelectionIntoWorkshop(), also when it
\* throws.  src tags each solid with the element it was converted from.
loadSelectionIntoWorkshop(d, s) ==
    LET selection == Selection(s)
    IN  IF Len(selection) # 2 \/ LoadThrows(s) THEN <<>>
        ELSE [k \in 1..2 |-> [solid |-> Convert(d, selection[k]), src |-> selection[k]]]

NoBounds == [min |-> ZeroVec, max |-> ZeroVec]

\* no cube has been handed to the converter on its own
NoConversion ==
    /\ cube = Elements[1]
    /\ matrix = <<>>
    /\ csg = <<>>
    /\ moved = <<>>

\* the closure of a fresh evaluation of the plugin file: workshop_dialog is
\* undefined, custom_renderer is null
Closure(script, action) ==
    [phase |-> "loaded", script |-> script, action |-> action, threw |-> FALSE,
     dialog |-> "undefined", renderer |-> FALSE, meshes |-> <<>>]

\* the plugin file was evaluated once, onload ran, the CSG library arrived
\* and the callback of loadCSGLibrary put action_workshop into menu.tools
Installed ==
    /\ csgDefined = TRUE
    /\ insts = << Closure("done", "live") >>
    /\ menu = {1}

Init ==
    /\ draft \in Drafts
    /\ hasGetBounds \in (IF draft = "ransowere" THEN BOOLEAN ELSE {FALSE})
    /\ scene = ElementIds
    /\ added = <<>>
    /\ selected = <<>>
    /\ undoOpen = FALSE
    /\ undoCount = 0
    /\ pc = "idle"
    /\ mode = "subtract"
    /\ step = U(1)
    /\ operands = <<>>
    /\ sel = <<>>
    /\ polys = <<>>
    /\ bounds = NoBounds
    /\ x = Zero /\ y = Zero /\ z = Zero
    /\ cubes = <<>>
    /\ earlier = <<>>
    /\ outcome = "none"
    /\ NoConversion
    /\ Installed

env == <<draft, hasGetBounds>>
conversion == <<cube, matrix, csg, moved>>
registry == <<csgDefined, menu>>
host == <<scene, added, undoOpen, undoCount>>
locals == <<mode, step, operands, sel, polys, bounds, x, y, z, cubes>>

\* no handler is running, and the model still follows the workshop
Idle == pc = "idle" /\ undoCount < MaxEdits

\* a Dialog made by instance i is on screen: "shown" is workshop_dialog;
\* "orphan" is a Dialog whose onOpen threw inside show(), so that the
\* assignment to workshop_dialog never happened
Visible(i) == insts[i].dialog \in {"shown", "orphan"}

\* the user selects one more element
Select(e) ==
    /\ Idle
    /\ e \in scene
    /\ e \notin Range(selected)
    /\ Len(selected) < MaxSelected
    /\ selected' = Append(selected, e)
    /\ UNCHANGED <<env, earlier, conversion, registry, insts, host, locals, pc, outcome>>

\* the user clears the selection
UnselectAll ==
    /\ Idle
    /\ selected # <<>>
    /\ selected' = <<>>
    /\ UNCHANGED <<env, earlier, conversion, registry, insts, host, locals, pc, outcome>>

\* openWorkshop (part_000 lines 155-198), the click of action_workshop of
\* instance i while it is in menu.tools and no dialog is in the way.
\* show() puts the dialog on screen and runs onOpen, which makes a new
\* CustomRenderer, wires the buttons and loads the selection; if that
\* throws, workshop_dialog = new Dialog(...).show() assigns nothing.
openWorkshop(i) ==
    /\ Idle
    /\ i \in menu
    /\ \A j \in 1..Len(insts) : ~Visible(j)
    /\ insts' = [insts EXCEPT
                    ![i].renderer = TRUE,
                    ![i].meshes = loadSelectionIntoWorkshop(draft, selected),
                    ![i].dialog = IF @ = "undefined" /\ LoadThrows(selected)
                                  THEN "orphan" ELSE "shown"]
    /\ UNCHANGED <<env, earlier, conversion, registry, host, locals, selected, pc, outcome>>

\* the button "Carregar Selecao" of the dialog of instance i
LoadSelection(i) ==
    /\ Idle
    /\ i \in 1..Len(insts)
    /\ Visible(i)
    /\ insts[i].renderer
    /\ insts' = [insts EXCEPT ![i].meshes = loadSelectionIntoWorkshop(draft, selected)]
    /\ UNCHANGED <<env, earlier, conversion, registry, host, locals, selected, pc, outcome>>

----------------------------------------------------------------------------
(* Pipeline Orchestrator: executeCSGOperation.  JavaScript runs a handler  *)
(* to its end before any other handler, so one action is the whole         *)
(* handler; a handler whose loops cannot end leaves pc = "spin" for good.  *)

\* new_cubes.forEach(cube => cube.add(parent))
AddTo(parent, cs) == [i \in 1..Len(cs) |-> [from |-> cs[i].from, to |-> cs[i].to,
                                            parent |-> parent]]

\* One loop of csgToCubes, for (let p = lo; p < hi; p += st), followed for
\* MaxPasses passes: "ends" when its condition fails within them (after one
\* pass with a NaN step the variable is NaN, and NaN < hi is false), "never"
\* when a pass leaves the variable where it was or moves it down, so that it
\* cannot reach hi, and "long" when it is still rising after MaxPasses passes.
Loop(lo, hi, st) ==
    LET loop[p \in Num, n \in Nat] ==
            IF ~FLt[p, hi] THEN "ends"
            ELSE IF ~IsNaN(st) /\ FLe[FAdd[p, st], p] THEN "never"
            ELSE IF n = MaxPasses THEN "long"
            ELSE loop[FAdd[p, st], n + 1]
    IN  loop[lo, 0]

\* the loops that make a pass: x, y inside a pass of x, z inside a pass of y
Entered(b) == {k \in 1..3 : \A j \in 1..k : FLt[b.min[j], b.max[j]]}

\* The three loops with bounds b and step st: "returns" when every loop that
\* makes a pass ends within MaxPasses passes; "spins" when one of them can
\* never end and the innermost makes more than MaxPasses passes, so that
\* the handler does not come back; "unfollowed" otherwise, a scan too long
\* for the model.
Scan(b, st) ==
    LET verdict == [k \in Entered(b) |-> Loop(b.min[k], b.max[k], st)]
    IN  IF \A k \in DOMAIN verdict : verdict[k] = "ends" THEN "returns"
        ELSE IF /\ \E k \in DOMAIN verdict : verdict[k] = "never"
                /\ verdict[Cardinality(DOMAIN verdict)] # "ends"
        THEN "spins"
        ELSE "unfollowed"

\* the scan of bounds b with step st ends and the model follows it
Followed(b, st) == Scan(b, st) = "returns"

\* the values of a loop variable in the first MaxSpin passes of a loop that
\* starts at lo
FirstPasses(lo, st) ==
    LET pass[n \in 1..MaxSpin] == IF n = 1 THEN lo ELSE FAdd[pass[n - 1], st]
    IN  {pass[n] : n \in 1..MaxSpin}

\* csgToCubes, computed once for every result a draft can voxelize, its
\* bounding box, and every step with which the scan is followed: the pairs
\* <<run, cubes>>
VoxelJobs ==
    UNION {{<<ps, Bounds(d, gb, ps)>> :
                ps \in {Combined(j) : j \in Jobs(d)},
                gb \in IF d = "ransowere" THEN BOOLEAN ELSE {FALSE}} :
            d \in Drafts}

Scans ==
    {<<run, csgToCubes(run[1][1], run[1][2], run[2])>> :
        run \in {w \in VoxelJobs \X Resolutions : Followed(w[1][2], w[2])}}

Voxels(run) == (CHOOSE p \in Scans : p[1] = run)[2]

\* the handler ends without touching the host
Return(how) ==
    /\ outcome' = how
    /\ UNCHANGED <<host, locals, pc, selected, insts>>

\* part_000 lines 252-269, ransowere.js lines 199-211: voxelize and apply.
\* selection[0].parent of an empty selection throws after Undo.initEdit.
\* An element that is removed leaves the selection.  workshop_dialog.hide()
\* throws a TypeError, after the edit, while workshop_dialog is undefined.
VoxelizeAndApply(i, ps, m, r, ops, selection) ==
    \E b \in {Bounds(draft, hasGetBounds, ps)} : \E scan \in {Scan(b, r)} :
        /\ scan # "unfollowed"
        /\ mode' = m
        /\ step' = r
        /\ operands' = ops
        /\ sel' = selection
        /\ IF scan = "spins"
           THEN /\ pc' = "spin"
                /\ polys' = ps
                /\ bounds' = b
                /\ x' = b.min[1] /\ y' = b.min[2] /\ z' = b.min[3]
                /\ cubes' = <<>>
                /\ outcome' = "running"
                /\ UNCHANGED <<host, selected, insts>>
           ELSE /\ UNCHANGED <<pc, polys, bounds, x, y, z, cubes>>
                /\ IF Len(selection) = 0
                   THEN /\ undoOpen' = TRUE
                        /\ outcome' = "threw"
                        /\ UNCHANGED <<scene, added, undoCount, selected, insts>>
                   ELSE /\ scene' = scene \ Range(selection)
                        /\ selected' = SelectSeq(selected,
                                                 LAMBDA e : e \notin Range(selection))
                        /\ added' = added \o AddTo(Elements[selection[1]].parent,
                                                   Voxels(<<<<ps, b>>, r>>))
                        /\ undoOpen' = FALSE
                        /\ undoCount' = undoCount + 1
                        /\ IF insts[i].dialog = "shown"
                           THEN /\ insts' = [insts EXCEPT ![i].dialog = "hidden"]
                                /\ outcome' = "ok"
                           ELSE /\ outcome' = "hideThrew"
                                /\ UNCHANGED insts

\* part_000 lines 225-270
ExecutePart000(i, m, r) ==
    IF Len(insts[i].meshes) # 2
    THEN Return("notLoaded")
    ELSE LET item_A == insts[i].meshes[1]
             item_B == insts[i].meshes[2]
             result_solid == Combined(<<m, item_A.solid, item_B.solid>>)
         IN  VoxelizeAndApply(i, result_solid, m, r, <<item_A.src, item_B.src>>,
                              Selection(selected))

\* ransowere.js lines 175-212
ExecuteRansowere(i, m, r) ==
    LET selection == Selection(selected)
    IN  IF Len(selection) < 2 \/ ConvertThrows(selection[1]) \/ ConvertThrows(selection[2])
        THEN Return("threw")
        ELSE IF m # "subtract"
        THEN Return("defaultReturn")
        ELSE LET csg_solid == [k \in 1..2 |-> cubeToCSG(Elements[selection[k]])]
                 result_solid == Combined(<<"subtract">> \o csg_solid)
             IN  VoxelizeAndApply(i, result_solid, m, r, <<selection[1], selection[2]>>,
                                  selection)

\* the button "EXECUTAR CSG & VOXELIZAR" of the dialog of instance i: m and
\* r are the values of the inputs meshplus_mode and meshplus_resolution
executeCSGOperation(i, m, r) ==
    /\ Idle
    /\ i \in 1..Len(insts)
    /\ Visible(i)
    /\ insts[i].renderer
    /\ IF draft = "part_000" THEN ExecutePart000(i, m, r) ELSE ExecuteRansowere(i, m, r)
    /\ UNCHANGED <<env, earlier, conversion, registry>>

\* The loops do not end: one pass of the innermost loop that runs.  The
\* model follows its first MaxSpin passes.
SpinStep ==
    /\ pc = "spin"
    /\ Len(cubes) < MaxSpin
    /\ IF FLt[bounds.min[2], bounds.max[2]] /\ FLt[bounds.min[3], bounds.max[3]]
       THEN /\ z \in FirstPasses(bounds.min[3], step)
            /\ cubes' = cubes \o Sample(polys, x, y, z, step)
            /\ z' = FAdd[z, step]
            /\ UNCHANGED <<x, y>>
       ELSE IF FLt[bounds.min[2], bounds.max[2]]
       THEN /\ y \in FirstPasses(bounds.min[2], step)
            /\ y' = FAdd[y, step]
            /\ UNCHANGED <<x, z, cubes>>
       ELSE /\ x \in FirstPasses(bounds.min[1], step)
            /\ x' = FAdd[x, step]
            /\ UNCHANGED <<y, z, cubes>>
    /\ UNCHANGED <<env, earlier, conversion, registry, insts, host, selected,
                   mode, step, operands, sel, polys, bounds, pc, outcome>>

Next ==
    \/ \E e \in ElementIds : Select(e)
    \/ UnselectAll
    \/ \E i \in 1..Len(insts) : openWorkshop(i)
    \/ \E i \in 1..Len(insts) : LoadSelection(i)
    \/ \E i \in 1..Len(insts), m \in Modes, r \in Resolutions : executeCSGOperation(i, m, r)
    \/ SpinStep

Spec == Init /\ [][Next]_vars

----------------------------------------------------------------------------
(* csgToCubes on its own: Init draws the solid, the step and the library,  *)
(* and the outer loop is followed one x slab at a time.                    *)

\* the box from lo to hi on every axis
Box(lo, hi) == BoxSolid(<<lo[1], lo[2], lo[3]>>, <<hi[1], hi[2], hi[3]>>)

Whole(a, b, c) == <<U(a), U(b), U(c)>>

\* a cube of the outliner from the origin to <<side, side, side>>
Cuboid(side) ==
    [type |-> "cube", parent |-> "root", origin |-> ZeroVec, rotation |-> <<0, 0, 0>>,
     from |-> ZeroVec, to |-> <<side, side, side>>]

\* <<a / 10, b / 10, c / 10>>
Tenths(a, b, c) == [k \in 1..3 |-> Dec(<<a, b, c>>[k], 10)]

\* solids handed to csgToCubes: boxes of side 1 and 2 at several places,
\* cubes of side 0.8 and 2.1 converted, a flat box, nothing at all, and
\* what the two drafts get from A - B
VoxSolids ==
    {Box(e[1], e[2]) : e \in
        { <<Whole(0, 0, 0), Whole(1, 1, 1)>>, <<Whole(1, 0, 0), Whole(2, 1, 1)>>,
          <<Whole(0, 1, 2), Whole(1, 2, 3)>>, <<Whole(-1, 0, 0), Whole(0, 1, 1)>>,
          <<Whole(0, 0, 0), Whole(2, 2, 2)>>, <<Whole(2, 4, 6), Whole(4, 6, 8)>> }}
    \cup {cubeToCSG(c) : c \in {Cuboid(Tenths(n, n, n)[1]) : n \in {8, 21}} \cup {Elements[3]}}
    \cup {<<>>}
    \cup {Combined(<<"subtract">> \o [k \in 1..2 |-> Convert(d, k)]) : d \in Drafts}

\* resolutions handed to csgToCubes
VoxSteps ==
    {U(n) : n \in {-1, 0, 1, 2}} \cup {Tenths(n, n, n)[1] : n \in {1, 7}} \cup {Tiny, NaN}

VoxInit ==
    /\ draft \in Drafts
    /\ hasGetBounds \in (IF draft = "ransowere" THEN BOOLEAN ELSE {FALSE})
    /\ scene = ElementIds
    /\ added = <<>>
    /\ selected = <<>>
    /\ undoOpen = FALSE
    /\ undoCount = 0
    /\ mode = "subtract"
    /\ operands = <<>>
    /\ sel = <<>>
    /\ outcome = "none"
    /\ polys \in VoxSolids
    /\ step \in VoxSteps
    /\ bounds = Bounds(draft, hasGetBounds, polys)
    /\ Scan(bounds, step) # "unfollowed"
    /\ x = bounds.min[1] /\ y = bounds.min[2] /\ z = bounds.min[3]
    /\ cubes = <<>>
    /\ earlier = <<>>
    /\ pc = IF Scan(bounds, step) = "spins" THEN "spin" ELSE "scan"
    /\ NoConversion
    /\ Installed

\* one pass of the loop over x, or its end: return cubes
ScanSlab ==
    /\ pc = "scan"
    /\ IF FLt[x, bounds.max[1]]
       THEN /\ cubes' = cubes \o YLoop(polys, bounds, x, step)
            /\ x' = FAdd[x, step]
            /\ pc' = "scan"
       ELSE /\ pc' = "returned"
            /\ UNCHANGED <<x, cubes>>
    /\ UNCHANGED <<env, earlier, conversion, registry, insts, host, selected,
                   mode, step, operands, sel, polys, bounds, y, z, outcome>>

VoxNext == ScanSlab \/ SpinStep

VoxSpec == VoxInit /\ [][VoxNext]_vars

----------------------------------------------------------------------------
(* csgToCubes called again on the same solid with the same resolution      *)

\* how many calls of csgToCubes on one solid are followed
MaxCalls == 2

\* a variant of CallAgain whose loop over x goes on from the x the call
\* before left behind
CallAgainResumed ==
    /\ pc = "returned"
    /\ Len(earlier) < MaxCalls - 1
    /\ earlier' = Append(earlier, cubes)
    /\ bounds' = Bounds(draft, hasGetBounds, polys)
    /\ y' = bounds'.min[2] /\ z' = bounds'.min[3]
    /\ cubes' = <<>>
    /\ pc' = IF Scan(bounds', step) = "spins" THEN "spin" ELSE "scan"
    /\ UNCHANGED <<env, conversion, registry, insts, host, selected,
                   mode, step, operands, sel, polys, x, outcome>>

\* ransowere.js lines 113-125, part_000 lines 45-59: csgToCubes is entered
\* again with the same csg_solid and resolution.  bounds is computed anew,
\* cubes is a new empty list (const cubes = []) and each loop variable is
\* declared by its loop (let x = bounds.min.x).  The list the call before
\* returned goes to earlier.
CallAgain ==
    /\ pc = "returned"
    /\ Len(earlier) < MaxCalls - 1
    /\ earlier' = Append(earlier, cubes)
    /\ bounds' = Bounds(draft, hasGetBounds, polys)
    /\ x' = bounds'.min[1] /\ y' = bounds'.min[2] /\ z' = bounds'.min[3]
    /\ cubes' = <<>>
    /\ pc' = IF Scan(bounds', step) = "spins" THEN "spin" ELSE "scan"
    /\ UNCHANGED <<env, conversion, registry, insts, host, selected,
                   mode, step, operands, sel, polys, outcome>>

RepeatNext == ScanSlab \/ SpinStep \/ CallAgain

RepeatSpec == VoxInit /\ [][RepeatNext]_vars

----------------------------------------------------------------------------
(* Meshplus.getTransformationMatrix and Meshplus.cubeToCSG on their own:   *)
(* Init draws the cube.                                                    *)

\* cube.origin of the cubes drawn
Pivots == {Whole(0, 0, 0), Whole(8, 8, 8), Whole(1, -2, 3), Tenths(1, -7, 25)}

\* from and to of the cubes drawn: whole, fractional, flat, inside out
Extents ==
    { <<Whole(0, 0, 0), Whole(2, 2, 2)>>,
      <<Whole(1, 2, 3), Whole(3, 6, 4)>>,
      <<Tenths(1, 0, 0), Tenths(8, 10, 21)>>,
      <<Whole(0, 0, 0), Whole(0, 2, 2)>>,
      <<Whole(2, 0, 0), Whole(0, 2, 2)>> }

MatCubes ==
    {[type |-> "cube", parent |-> "root", origin |-> p, rotation |-> <<0, 0, 0>>,
      from |-> e[1], to |-> e[2]] :
        p \in Pivots, e \in Extents}

MatInit ==
    /\ draft = "ransowere"
    /\ hasGetBounds = FALSE
    /\ scene = ElementIds
    /\ added = <<>>
    /\ selected = <<>>
    /\ undoOpen = FALSE
    /\ undoCount = 0
    /\ pc = "convert"
    /\ mode = "subtract"
    /\ step = U(1)
    /\ operands = <<>>
    /\ sel = <<>>
    /\ polys = <<>>
    /\ bounds = NoBounds
    /\ x = Zero /\ y = Zero /\ z = Zero
    /\ cubes = <<>>
    /\ earlier = <<>>
    /\ outcome = "none"
    /\ cube \in MatCubes
    /\ matrix = <<>>
    /\ csg = <<>>
    /\ moved = <<>>
    /\ Installed

pipeline == <<host, locals, selected, pc, outcome>>

\* const matrix = Meshplus.getTransformationMatrix(cube)
BuildMatrix ==
    /\ pc = "convert"
    /\ matrix = <<>>
    /\ matrix' = getTransformationMatrix(cube)
    /\ UNCHANGED <<env, earlier, registry, insts, pipeline, cube, csg, moved>>

\* csg_solid.transform(matrix) on the solid of lines 91-94
ApplyMatrix ==
    /\ pc = "convert"
    /\ matrix # <<>>
    /\ moved = <<>>
    /\ moved' = Transform(matrix, Untransformed(cube))
    /\ UNCHANGED <<env, earlier, registry, insts, pipeline, cube, matrix, csg>>

\* Meshplus.cubeToCSG(cube)
ConvertCube ==
    /\ pc = "convert"
    /\ csg = <<>>
    /\ csg' = cubeToCSG(cube)
    /\ UNCHANGED <<env, earlier, registry, insts, pipeline, cube, matrix, moved>>

MatNext == BuildMatrix \/ ApplyMatrix \/ ConvertCube

MatSpec == MatInit /\ [][MatNext]_vars

----------------------------------------------------------------------------
(* Plugin.register: onload, the script of loadCSGLibrary, onunload.        *)
(* Blockbench evaluates the plugin file each time it loads the plugin, so  *)
(* every load has its own closure (action_workshop, workshop_dialog,       *)
(* custom_renderer); window.CSG and the tools menu are shared.  A script   *)
(* element that was appended keeps its callbacks after the plugin is       *)
(* unloaded.                                                               *)

\* the plugin is loaded at most this many times
MaxLoads == 2

\* the callback handed to loadCSGLibrary by onload, run by instance i:
\* action_workshop = new Action(...); Blockbench.addMenuItem('menu.tools', ...)
Callback(i, script) ==
    /\ insts' = [insts EXCEPT ![i].action = "live", ![i].script = script]
    /\ menu' = menu \cup {i}

\* Blockbench loads the plugin: the file is evaluated, Plugin.register, onload.
\* loadCSGLibrary calls back at once if CSG is defined, else appends a script.
Install ==
    /\ pc = "idle"
    /\ Len(insts) < MaxLoads
    /\ \A i \in 1..Len(insts) : insts[i].phase = "unloaded"
    /\ IF csgDefined
       THEN /\ insts' = Append(insts, Closure("none", "live"))
            /\ menu' = menu \cup {Len(insts) + 1}
       ELSE /\ insts' = Append(insts, Closure("pending", "undefined"))
            /\ UNCHANGED menu
    /\ UNCHANGED <<env, earlier, conversion, pipeline, csgDefined>>

\* script.onload of the script instance i appended
ScriptLoaded(i) ==
    /\ i \in 1..Len(insts)
    /\ insts[i].script = "pending"
    /\ csgDefined' = TRUE
    /\ Callback(i, "done")
    /\ UNCHANGED <<env, earlier, conversion, pipeline>>

\* script.onerror of the script instance i appended
ScriptFailed(i) ==
    /\ i \in 1..Len(insts)
    /\ insts[i].script = "pending"
    /\ insts' = [insts EXCEPT ![i].script = "failed"]
    /\ UNCHANGED <<env, earlier, conversion, pipeline, csgDefined, menu>>

\* onunload of part_000 (lines 305-309): action_workshop.delete() throws a
\* TypeError while action_workshop is undefined; else the action leaves the
\* menu and workshop_dialog, if this instance assigned one, is hidden.
UnloadPart000(i) ==
    IF insts[i].action = "undefined"
    THEN /\ insts' = [insts EXCEPT ![i].phase = "unloaded", ![i].threw = TRUE]
         /\ UNCHANGED menu
    ELSE /\ insts' = [insts EXCEPT ![i].phase = "unloaded", ![i].action = "deleted",
                                   ![i].dialog = IF @ = "shown" THEN "hidden" ELSE @]
         /\ menu' = menu \ {i}

\* onunload of ransowere.js (lines 248-250): an empty body
UnloadRansowere(i) ==
    /\ insts' = [insts EXCEPT ![i].phase = "unloaded"]
    /\ UNCHANGED menu

\* Blockbench unloads the plugin: onunload of the loaded instance
Unload(i) ==
    /\ pc = "idle"
    /\ i \in 1..Len(insts)
    /\ insts[i].phase = "loaded"
    /\ IF draft = "part_000" THEN UnloadPart000(i) ELSE UnloadRansowere(i)
    /\ UNCHANGED <<env, earlier, conversion, pipeline, csgDefined>>

\* before Blockbench loads the plugin; another plugin may have defined CSG,
\* and the user may have selected a group and a cube
LifeInit ==
    /\ draft \in Drafts
    /\ hasGetBounds = FALSE
    /\ scene = ElementIds
    /\ added = <<>>
    /\ selected \in {<<>>, <<4, 1>>}
    /\ undoOpen = FALSE
    /\ undoCount = 0
    /\ pc = "idle"
    /\ mode = "subtract"
    /\ step = U(1)
    /\ operands = <<>>
    /\ sel = <<>>
    /\ polys = <<>>
    /\ bounds = NoBounds
    /\ x = Zero /\ y = Zero /\ z = Zero
    /\ cubes = <<>>
    /\ earlier = <<>>
    /\ outcome = "none"
    /\ NoConversion
    /\ csgDefined \in BOOLEAN
    /\ insts = <<>>
    /\ menu = {}

LifeNext ==
    \/ Install
    \/ \E i \in 1..MaxLoads : ScriptLoaded(i)
    \/ \E i \in 1..MaxLoads : ScriptFailed(i)
    \/ \E i \in 1..MaxLoads : Unload(i)
    \/ \E i \in 1..MaxLoads : openWorkshop(i)

LifeSpec == LifeInit /\ [][LifeNext]_vars

----------------------------------------------------------------------------
(* Properties of executeCSGOperation, under Spec                           *)

\* the ways executeCSGOperation ends without a result, or with an exception
Failures == {"threw", "notLoaded", "defaultReturn", "hideThrew"}

\* C1: whenever a resolution <= 0 has reached the voxelizer, the invocation
\* has ended with an error, the scan was not entered and there is no voxel.
C1_NonPositiveResolutionRejected ==
    FLe[step, Zero] => (pc = "idle" /\ outcome = "threw" /\ cubes = <<>>)

\* a box with to[i] <= from[i] on some axis
Degenerate(e) ==
    IsCube(e) /\ \E i \in 1..3 : FLe[Elements[e].to[i], Elements[e].from[i]]

\* C2: a degenerate box never gets past its conversion: no invocation has
\* combined and voxelized the solid of one.
C2_DegenerateBoxRejected ==
    \A i \in 1..Len(operands) : ~Degenerate(operands[i])

\* the box from [lo, lo, lo] to [hi, hi, hi]
IsBox(e, lo, hi) ==
    /\ IsCube(e)
    /\ Elements[e].from = Whole(lo, lo, lo)
    /\ Elements[e].to = Whole(hi, hi, hi)

\* C3: subtract at resolution 1 on A = [0,2]^3 and B = [1,3]^3 adds exactly
\* the 7 unit cells of A other than the cell from [1,1,1] to [2,2,2].
C3_SevenUnitVoxels ==
    ( /\ outcome \in {"ok", "hideThrew"}
      /\ Len(operands) = 2
      /\ IsBox(operands[1], 0, 2)
      /\ IsBox(operands[2], 1, 3)
      /\ mode = "subtract"
      /\ step = U(1) )
    => /\ Len(added) = 7
       /\ {added[i].from : i \in 1..Len(added)} =
            {Whole(a, b, c) : a \in 0..1, b \in 0..1, c \in 0..1} \ {Whole(1, 1, 1)}
       /\ \A i \in 1..Len(added) :
            added[i].to = [k \in 1..3 |-> FAdd[added[i].from[k], U(1)]]

\* C4: no invocation that converted both boxes returns at the operator
\* switch without a result, whichever of the three operators was chosen.
C4_EveryOperatorDelivers ==
    outcome # "defaultReturn"

\* C10: a step that ends an invocation in failure leaves the outliner and
\* the undo system as they were: nothing removed, nothing added, no edit
\* opened and left unfinished.
C10_FailureLeavesHostUnchanged ==
    [][outcome' \in Failures => UNCHANGED <<scene, added, undoOpen, undoCount>>]_vars

\* C13: a step of executeCSGOperation that removes elements from the scene
\* removes exactly the two elements whose solids it combined.
C13_RemovedAreTheCombined ==
    [][scene' # scene => scene \ scene' = Range(operands')]_vars

----------------------------------------------------------------------------
(* Properties of csgToCubes, under VoxSpec                                 *)

\* from of the cubes pushed so far
Froms == {cubes[i].from : i \in 1..Len(cubes)}

\* the values the loop variable of axis k takes in its passes, for a step
\* with which the loop ends; a loop inside a loop that makes no pass makes
\* none
GridAxis(k) ==
    LET loop[p \in Num] ==
            IF FLt[p, bounds.max[k]] THEN {p} \cup loop[FAdd[p, step]] ELSE {}
    IN  IF k \in Entered(bounds) THEN loop[bounds.min[k]] ELSE {}

GridCells == GridAxis(1) \X GridAxis(2) \X GridAxis(3)

CellCentre(c) == center_point(c[1], c[2], c[3], step)

\* the ray from cp along +x meets the plane of the rectangle beyond epsilon,
\* and the point where it does lies within the rectangle
Hits(polygon, cp) ==
    /\ Counted(polygon, cp)
    /\ \A k \in 2..3 : FLe[polygon.lo[k], cp[k]] /\ FLe[cp[k], polygon.hi[k]]

Crossings(ps, cp) == Cardinality({i \in 1..Len(ps) : Hits(ps[i], cp)})

\* C5: a cell gets a voxel iff the ray from its centre crosses an odd number
\* of polygons, a crossing being a plane hit beyond epsilon that falls
\* inside the polygon.
C5_ParityOfPolygonCrossings ==
    (pc = "returned" /\ FGt[step, Zero]) =>
        \A c \in GridCells :
            (c \in Froms) <=> (Crossings(polys, CellCentre(c)) % 2 # 0)

\* n * st without rounding
Times[n \in Nat, st \in Num] == IF n = 0 THEN Zero ELSE XAdd[Times[n - 1, st], st]

\* v is a whole multiple of st, without rounding
Multiple(v, st) ==
    \E n \in 0..MaxPasses : Times[n, st] = v \/ Times[n, st] = XNeg[v]

\* C6: a solid that is one box of side step, its corner on a multiple of
\* step, comes back as exactly that one box.
C6_UnitBoxReproduced ==
    ( /\ pc = "returned"
      /\ FGt[step, Zero]
      /\ polys # <<>>
      /\ polys = BoxSolid(GetBounds(polys).min, GetBounds(polys).max)
      /\ \A k \in 1..3 :
            /\ XAdd[GetBounds(polys).min[k], step] = GetBounds(polys).max[k]
            /\ Multiple(GetBounds(polys).min[k], step) )
    => cubes = << [from |-> GetBounds(polys).min, to |-> GetBounds(polys).max] >>

\* the loops of csgToCubes can end and have not been left behind
Scanning == pc \in {"scan", "returned"}

\* the cells whose centre the parity test classifies inside
InsideCells == {c \in GridCells : Intersections(polys, CellCentre(c)) % 2 # 0}

\* every cube sits on a cell classified inside, no cell has two cubes, and
\* the list returned has a cube on every such cell
OnePerInsideCell ==
    /\ Cardinality(Froms) = Len(cubes)
    /\ FGt[step, Zero] =>
        /\ Froms \subseteq InsideCells
        /\ pc = "returned" => InsideCells \subseteq Froms

\* C7 as stated: every cube has to - from = step on each axis, as
\* JavaScript subtracts them, sits on a cell whose centre was classified
\* inside, and no cell has two cubes.
C7_SideExactlyStep ==
    Scanning =>
        /\ \A i \in 1..Len(cubes) : \A k \in 1..3 :
                FSub[cubes[i].to[k], cubes[i].from[k]] = step
        /\ OnePerInsideCell

\* C7: every cube has to = from + step on each axis as floating point adds
\* them, sits on a cell whose centre the parity test classified inside, and
\* no cell has two cubes; the list returned has a cube on every such cell.
C7_OneVoxelPerInsideSample ==
    Scanning =>
        /\ \A i \in 1..Len(cubes) : \A k \in 1..3 :
                cubes[i].to[k] = FAdd[cubes[i].from[k], step]
        /\ OnePerInsideCell

C7_Witness ==
    /\ pc = "returned"
    /\ step = Dec(1, 10)
    /\ Len(cubes) > 1
    /\ \E i \in 1..Len(cubes) : FSub[cubes[i].to[1], cubes[i].from[1]] # step
    /\ Froms # GridCells

\* C8: on an axis whose scanned extent is a multiple of step, no cube starts
\* at or beyond max and none reaches past max.
C8_HalfOpenGrid ==
    (Scanning /\ FGt[step, Zero]) =>
        \A k \in 1..3 :
            Multiple(XAdd[bounds.max[k], XNeg[bounds.min[k]]], step) =>
                \A i \in 1..Len(cubes) :
                    /\ FLt[cubes[i].from[k], bounds.max[k]]
                    /\ FLe[cubes[i].to[k], bounds.max[k]]

\* a comes before b in the order by x, then y, then z
LexLess(a, b) ==
    \/ FLt[a[1], b[1]]
    \/ a[1] = b[1] /\ FLt[a[2], b[2]]
    \/ a[1] = b[1] /\ a[2] = b[2] /\ FLt[a[3], b[3]]

\* C9: in every call the cubes are in ascending order of from by x, then y,
\* then z, and the list a call returns is, element by element, the list
\* that every earlier call on the same solid with the same step returned.
C9_LexicographicAndRepeatable ==
    Scanning =>
        /\ \A i \in 1..(Len(cubes) - 1) : LexLess(cubes[i].from, cubes[i + 1].from)
        /\ pc = "returned" => \A n \in 1..Len(earlier) : cubes = earlier[n]

C9_Witness ==
    /\ pc = "returned"
    /\ earlier # <<>>
    /\ step = Dec(1, 10)
    /\ \E i, j \in 1..Len(cubes) :
        /\ cubes[i].from[1] # cubes[j].from[1]
        /\ cubes[i].from[2] # cubes[1].from[2]
        /\ cubes[j].from[3] # cubes[1].from[3]

\* C11: the range csgToCubes scans is the bounding box of the solid it was
\* given, on every axis, and never a fixed range unrelated to the solid.
C11_ScanRangeIsSolidBounds ==
    (pc = "returned" /\ polys # <<>>) => bounds = GetBounds(polys)

----------------------------------------------------------------------------
(* Properties of the conversion, under MatSpec                             *)

Identity4 ==
    << <<U(1), Zero, Zero, Zero>>, <<Zero, U(1), Zero, Zero>>,
       <<Zero, Zero, U(1), Zero>>, <<Zero, Zero, Zero, U(1)>> >>

\* C12: for a cube without rotation, whatever its pivot, the matrix of
\* getTransformationMatrix is the identity, and the solid cubeToCSG returns
\* by skipping the transform is the solid the transform would have given.
C12_ZeroRotationIsIdentity ==
    cube.rotation = <<0, 0, 0>> =>
        /\ matrix # <<>> => matrix = Identity4
        /\ (csg # <<>> /\ moved # <<>>) => moved = csg

C12_Witness ==
    /\ cube.rotation = <<0, 0, 0>>
    /\ cube.origin # ZeroVec
    /\ matrix # <<>>
    /\ csg # <<>>
    /\ moved # <<>>

----------------------------------------------------------------------------
(* Properties of the plugin's life cycle, under LifeSpec                   *)

\* C14: once onunload of an instance has run, its workshop action is not in
\* the tools menu, whenever the script of loadCSGLibrary ends, and onunload
\* did not throw.
C14_UnloadedStaysUnregistered ==
    \A i \in 1..Len(insts) :
        insts[i].phase = "unloaded" => (i \notin menu /\ ~insts[i].threw)

====
